---- MODULE Spec2Model ----
(***************************************************************************)
(* Model of src/src/ast.rs: the three tables of a WebidlBindings section   *)
(* (WebidlTypes, FunctionBindings, Binds), the typed identifier views over *)
(* their arenas, and BuildAstActions, the implementation of text::Actions  *)
(* that fills a borrowed section one grammar production at a time.         *)
(*                                                                         *)
(* An arena is a sequence; an Id<T> is the 0-based position its entry was  *)
(* allocated at (id_arena hands out consecutive indices and never frees).  *)
(* Option<T> is a record: None or Some(x).                                 *)
(***************************************************************************)
EXTENDS Naturals, Sequences, FiniteSets, TLC

\* ---------------------------------------------------------------- bounds
MaxNodes == 3   \* size of one input text: a declaration counts one, a
                \* reference to a declared type counts one, and the
                \* expressions of one binding together count one
MaxTypes == 2   \* type declarations in one input text
MaxRefs  == 1   \* type references held for the production being built
MaxExprs == 2   \* binding expression productions in one input text
MaxApiNodes == 2   \* size of the input text in the runs followed by API calls
MaxExcess == 2     \* how far past the end of a table a damaged reference points

\* ------------------------------------------------------- input alphabets
Names      == {"a"}                \* declaration names ($a)
Scalars    == {"Long"}            \* WebidlScalarType values used as inputs
FieldNames == <<"x", "y">>         \* dictionary field names, by position
EnumValues == {<<>>, <<"u", "v">>} \* enumeration value lists
Idxs       == {1}                  \* u32 slot / field indices
Offsets    == {0}                  \* u32 memory offsets
Lengths    == {2}                  \* u32 memory lengths
ValTypes   == {"I32"}              \* walrus::ValType
AllocNames == {"malloc"}           \* allocator function names

\* The host module (walrus::Module and walrus::IndicesToIds): one function
\* type and two functions, addressed by index or by name.
WasmTypeIds   == {0}
WasmFuncIds   == {0, 1}
WasmTypeNames == [t |-> 0]
WasmFuncNames == [f |-> 0, g |-> 1]
HostNames     == {"t", "f", "nope"}
Excess        == {0, MaxExcess}    \* damaged index minus the table's size

\* ------------------------------------------------------------- Option<T>
None    == [some |-> FALSE]
Some(x) == [some |-> TRUE, val |-> x]

\* ---------------------------------------------------------- WebidlTypeRef
RefScalar(s) == [tag |-> "Scalar", scalar |-> s]
RefId(id)    == [tag |-> "Id", id |-> id]

\* From<$id> for WebidlTypeRef / From<Id<WebidlCompoundType>>
TypeRefFromId(id) == RefId(id)

\* ----------------------------------------------------- WebidlCompoundType
KindStatic      == [tag |-> "Static"]
KindConstructor == [tag |-> "Constructor"]
KindMethod(ty)  == [tag |-> "Method", ty |-> ty]

WebidlFunction(kind, params, result) ==
    [variant |-> "Function", kind |-> kind, params |-> params, result |-> result]
WebidlDictionaryField(name, ty) == [name |-> name, ty |-> ty]
WebidlDictionary(fields)   == [variant |-> "Dictionary", fields |-> fields]
WebidlEnumeration(values)  == [variant |-> "Enumeration", values |-> values]
WebidlUnion(members)       == [variant |-> "Union", members |-> members]

\* ------------------------------------------------------------ id newtypes
\* id_newtypes!: a typed id is the raw arena id tagged with its view.
TypeViews    == {"Function", "Dictionary", "Enumeration", "Union"}
BindingViews == {"Import", "Export"}
wrap(view, id) == [view |-> view, id |-> id]

\* ---------------------------------------------------------------- arenas
\* id_arena::Arena::alloc: the new entry goes to the end, its id is the old
\* length.
ArenaNextId(arena)  == Len(arena)
\* (For comparison, a faulty alloc: the new entry goes to the front.)
ArenaAllocFront(arena, x) == <<x>> \o arena
ArenaAlloc(arena, x) == Append(arena, x)
\* id_arena::Arena::get
ArenaGet(arena, id) ==
    IF id < Len(arena) THEN Some(arena[id + 1]) ELSE None

\* ------------------------------------------------ WebidlTypes / FunctionBindings
\* Both tables have the same three fields and the same code.
EmptyTable == [names |-> <<>>, indices |-> <<>>, arena |-> <<>>]

\* by_name: self.names.get(name).cloned()
by_name(table, name) ==
    IF name \in DOMAIN table.names THEN Some(table.names[name]) ELSE None

\* by_index: self.indices.get(index as usize).cloned()
\* (For comparison, a faulty by_index: an index past the end gets the last id.)
by_index_clamped(table, index) ==
    IF Len(table.indices) = 0 THEN None
    ELSE IF index < Len(table.indices) THEN Some(table.indices[index + 1])
    ELSE Some(table.indices[Len(table.indices)])
\* (For comparison, a by_index off by one: the index just past the end gets
\* the id the next insert will issue.)
by_index_off_by_one(table, index) ==
    IF index < Len(table.indices) THEN Some(table.indices[index + 1])
    ELSE IF index = Len(table.indices) THEN Some(Len(table.arena))
    ELSE None
by_index(table, index) ==
    IF index < Len(table.indices) THEN Some(table.indices[index + 1]) ELSE None

\* T::get / T::get_mut of impl_webidl_type_id! and impl_function_binding_id!:
\* the payload if the entry is of the view's variant.
\* (For comparison, a faulty view: the payload whatever its variant.)
ViewGetAny(view, entry) == Some(entry)
ViewGet(view, entry) ==
    IF entry.variant = view THEN Some(entry) ELSE None

\* get / get_mut: self.arena.get(id.into()).and_then(T::get)
get(table, tid) ==
    LET e == ArenaGet(table.arena, tid.id)
    IN  IF e.some THEN ViewGet(tid.view, e.val) ELSE None

\* insert: alloc in the arena, push the id on indices, wrap the id.
InsertId(table) == ArenaNextId(table.arena)
\* (For comparison, a faulty insert: the id goes to the front of indices.)
insert_index_first(table, entry) ==
    [table EXCEPT !.arena   = ArenaAlloc(table.arena, entry),
                  !.indices = <<InsertId(table)>> \o table.indices]
insert(table, entry) ==
    [table EXCEPT !.arena   = ArenaAlloc(table.arena, entry),
                  !.indices = Append(table.indices, InsertId(table))]
InsertRet(table, entry) == wrap(entry.variant, InsertId(table))

\* self.section.<table>.names.insert(name.to_string(), id)
\* (For comparison, a faulty insert: a name already bound keeps its id.)
HashMapInsertKeepFirst(names, name, id) ==
    [n \in (DOMAIN names) \cup {name} |->
        IF n \in DOMAIN names THEN names[n] ELSE id]
HashMapInsert(names, name, id) ==
    [n \in (DOMAIN names) \cup {name} |-> IF n = name THEN id ELSE names[n]]
\* (For comparison, a faulty recording: the name gets the id after the one
\* given.)
record_name_off_by_one(table, name, id) ==
    [table EXCEPT !.names = HashMapInsert(table.names, name, id + 1)]
record_name(table, name, id) ==
    [table EXCEPT !.names = HashMapInsert(table.names, name, id)]

\* ---------------------------------------------------- binding payloads
ImportBinding(wasm_ty, webidl_ty, params, result) ==
    [variant |-> "Import", wasm_ty |-> wasm_ty, webidl_ty |-> webidl_ty,
     params |-> params, result |-> result]
ExportBinding(wasm_ty, webidl_ty, params, result) ==
    [variant |-> "Export", wasm_ty |-> wasm_ty, webidl_ty |-> webidl_ty,
     params |-> params, result |-> result]
Bind(func, binding) == [func |-> func, binding |-> binding]

\* OutgoingBindingMap { bindings } / IncomingBindingMap { bindings }
OutgoingBindingMap(exprs) == [bindings |-> exprs]
IncomingBindingMap(exprs) == [bindings |-> exprs]

\* --------------------------------------------- OutgoingBindingExpression
OutAs(ty, idx)                 == [variant |-> "As", ty |-> ty, idx |-> idx]
OutUtf8Str(ty, offset, length) ==
    [variant |-> "Utf8Str", ty |-> ty, offset |-> offset, length |-> length]
OutUtf8CStr(ty, offset)        == [variant |-> "Utf8CStr", ty |-> ty, offset |-> offset]
OutI32ToEnum(ty, idx)          == [variant |-> "I32ToEnum", ty |-> ty, idx |-> idx]
OutView(ty, offset, length)    ==
    [variant |-> "View", ty |-> ty, offset |-> offset, length |-> length]
OutCopy(ty, offset, length)    ==
    [variant |-> "Copy", ty |-> ty, offset |-> offset, length |-> length]
OutDict(ty, fields)            == [variant |-> "Dict", ty |-> ty, fields |-> fields]
OutBindExport(ty, binding, idx) ==
    [variant |-> "BindExport", ty |-> ty, binding |-> binding, idx |-> idx]

\* --------------------------------------------- IncomingBindingExpression
InGet(idx)                 == [variant |-> "Get", idx |-> idx]
InAs(ty, expr)             == [variant |-> "As", ty |-> ty, expr |-> expr]
InAllocUtf8Str(name, expr) ==
    [variant |-> "AllocUtf8Str", alloc_func_name |-> name, expr |-> expr]
InAllocCopy(name, expr)    ==
    [variant |-> "AllocCopy", alloc_func_name |-> name, expr |-> expr]
InEnumToI32(ty, expr)      == [variant |-> "EnumToI32", ty |-> ty, expr |-> expr]
InField(idx, expr)         == [variant |-> "Field", idx |-> idx, expr |-> expr]
InBindImport(ty, binding, expr) ==
    [variant |-> "BindImport", ty |-> ty, binding |-> binding, expr |-> expr]

\* ------------------------------------------------------------------ state
VARIABLES
    types,      \* section.types    : WebidlTypes
    bindings,   \* section.bindings : FunctionBindings
    binds,      \* section.binds    : Binds (its arena)
    phase,      \* where the parser driving BuildAstActions is: "types",
                \* "bindings", "binds" (the subsection being parsed),
                \* "section" (both subsections reduced), "done", or
                \* "aborted" (it gave up on an absent lookup); in the last
                \* two the borrow has ended and the caller uses the section
    stack,      \* the values the parser holds for the productions being
                \* built, oldest first: what the callbacks returned
    pending,    \* Some(id) between a type constructor and its webidl_type
    nodes,      \* size of the input consumed so far (see MaxNodes)
    exprs,      \* binding expression productions so far
    issued,     \* per table, in call order: what each insert was given
                \* and returned, and the name its declaration gave (a
                \* record kept by the observer, not by the program)
    op,         \* the last operation and its arguments
    ret         \* what the last operation returned

vars == <<types, bindings, binds, phase, stack, pending, nodes, exprs, issued, op, ret>>

\* WebidlBindings::default() followed by BuildAstActions::new(&mut section, ..)
Init ==
    /\ types = EmptyTable
    /\ bindings = EmptyTable
    /\ binds = <<>>
    /\ phase = "types"
    /\ stack = <<>>
    /\ pending = None
    /\ nodes = 0
    /\ exprs = 0
    /\ issued = [types |-> <<>>, bindings |-> <<>>, binds |-> <<>>]
    /\ op = [name |-> "new"]
    /\ ret = None

Issued(id, entry, name) == [id |-> id, entry |-> entry, name |-> name]

\* ------------------------------------------------------- the value stack
Val(k, v)  == [k |-> k, v |-> v]
Front(s)   == SubSeq(s, 1, Len(s) - 1)
Last(s)    == s[Len(s)]
DropLast(s, n) == SubSeq(s, 1, Len(s) - n)
FromTop(s, n)  == s[Len(s) - n + 1]      \* n = 1 is the top
CountKind(s, k) == Cardinality({i \in DOMAIN s : s[i].k = k})
AllKind(s, k)   == \A i \in DOMAIN s : s[i].k = k
Values(s)       == [i \in DOMAIN s |-> s[i].v]
Room(n)         == nodes + n <= MaxNodes
\* The first expression of a binding adds to the size of the input.
HasExprs        == \E i \in DOMAIN stack : stack[i].k \in {"out", "in"}
ExprCost        == IF HasExprs THEN 0 ELSE 1
\* Room for one more expression (after n more units) and for its binding.
ExprRoom(n)     == Room(1 + ExprCost + n) /\ exprs < MaxExprs

UnwrapOr(o, d)     == IF o.some THEN o.val ELSE d
OptionMap(r, F(_)) == IF r.some THEN Some(F(r.val)) ELSE None

\* What the parser does with the Option a lookup production returns: a
\* value is kept for the enclosing production; an absence is a parse error,
\* which ends the run and drops the values held so far.
Keep(kind, r) ==
    IF r.some
    THEN /\ stack' = Append(stack, Val(kind, r.val))
         /\ phase' = phase
    ELSE /\ stack' = <<>>
         /\ phase' = "aborted"

\* The same for a reference to a declared type.
KeepTypeRef(r) ==
    /\ Keep("tyref", r)
    /\ nodes' = IF r.some THEN nodes + 1 ELSE nodes

\* A type reference is expected: inside a type declaration, as the
\* webidl_ty of a binding (after its wasm_ty), or inside an expression.
ExpectsTypeRef(cost) ==
    \/ /\ phase = "types"
       /\ pending = None
       /\ Room(1 + cost)
       /\ Len(types.arena) < MaxTypes
       /\ CountKind(stack, "tyref") < MaxRefs
    \/ /\ phase = "bindings"
       /\ Len(stack) = 1
       /\ Room(1 + cost)
    \/ /\ phase = "bindings"
       /\ Len(stack) >= 2
       /\ ExprRoom(cost)
       /\ CountKind(stack, "tyref") < MaxRefs + 1

\* ------------------------------------------------------ type references
\* (For comparison, a builder that rolls back: on an absent name it empties
\* the Type Table.)
webidl_type_ref_named_rollback(name) ==
    /\ ExpectsTypeRef(1)
    /\ LET r == OptionMap(by_name(types, name), TypeRefFromId)
       IN  /\ ret' = r
           /\ KeepTypeRef(r)
           /\ types' = IF r.some THEN types ELSE EmptyTable
    /\ op' = [name |-> "webidl_type_ref_named", arg |-> name]
    /\ UNCHANGED <<bindings, binds, pending, exprs, issued>>

\* (For comparison, a builder that resolves forward: an absent name gets a
\* reference to the entry the next insert will make.)
webidl_type_ref_named_forward(name) ==
    /\ ExpectsTypeRef(1)
    /\ LET r == IF by_name(types, name).some
                THEN OptionMap(by_name(types, name), TypeRefFromId)
                ELSE Some(RefId(InsertId(types)))
       IN  /\ ret' = r
           /\ KeepTypeRef(r)
    /\ op' = [name |-> "webidl_type_ref_named", arg |-> name]
    /\ UNCHANGED <<types, bindings, binds, pending, exprs, issued>>

\* fn webidl_type_ref_named(&mut self, name: &str) -> Option<WebidlTypeRef>
webidl_type_ref_named(name) ==
    /\ ExpectsTypeRef(1)
    /\ LET r == OptionMap(by_name(types, name), TypeRefFromId)
       IN  /\ ret' = r
           /\ KeepTypeRef(r)
    /\ op' = [name |-> "webidl_type_ref_named", arg |-> name]
    /\ UNCHANGED <<types, bindings, binds, pending, exprs, issued>>

\* fn webidl_type_ref_indexed(&mut self, idx: u32) -> Option<WebidlTypeRef>
webidl_type_ref_indexed(idx) ==
    /\ ExpectsTypeRef(1)
    /\ LET r == OptionMap(by_index(types, idx), TypeRefFromId)
       IN  /\ ret' = r
           /\ KeepTypeRef(r)
    /\ op' = [name |-> "webidl_type_ref_indexed", arg |-> idx]
    /\ UNCHANGED <<types, bindings, binds, pending, exprs, issued>>

\* fn webidl_scalar_type_*(&mut self) -> WebidlScalarType, one per scalar;
\* From<WebidlScalarType> for WebidlTypeRef makes it a type reference.
webidl_scalar_type(s) ==
    /\ ExpectsTypeRef(0)
    /\ ret' = Some(s)
    /\ stack' = Append(stack, Val("tyref", RefScalar(s)))
    /\ op' = [name |-> "webidl_scalar_type", arg |-> s]
    /\ UNCHANGED <<types, bindings, binds, phase, pending, nodes, exprs, issued>>

\* ------------------------------------------------------- type productions
\* A type constructor inserts its payload and returns the typed id; the
\* parser hands that id to webidl_type next.
InsertType(entry, opname) ==
    /\ phase = "types"
    /\ pending = None
    /\ Room(1)
    /\ Len(types.arena) < MaxTypes
    /\ types' = insert(types, entry)
    /\ ret' = Some(InsertRet(types, entry))
    /\ issued' = [issued EXCEPT !.types =
                      Append(@, Issued(InsertRet(types, entry), entry, None))]
    /\ pending' = Some(InsertRet(types, entry).id)
    /\ stack' = <<>>
    /\ nodes' = nodes + 1
    /\ op' = [name |-> opname, entry |-> entry]
    /\ UNCHANGED <<bindings, binds, phase, exprs>>

\* fn webidl_function(&mut self, kind, params, result) -> WebidlFunctionId
\* The held references are the method receiver (webidl_function_kind_method),
\* the parameters (webidl_function_params) and the result
\* (webidl_function_result), in grammar order.
webidl_function ==
    \E method \in BOOLEAN, ctor \in BOOLEAN, hasResult \in BOOLEAN :
        /\ method => (Len(stack) > 0 /\ ~ctor)
        /\ LET refs == Values(stack)
               rest == IF method THEN Tail(refs) ELSE refs
               kind == IF method THEN Some(KindMethod(Head(refs)))
                       ELSE IF ctor THEN Some(KindConstructor) ELSE None
           IN  /\ hasResult => Len(rest) > 0
               /\ LET params == IF hasResult THEN Front(rest) ELSE rest
                      result == IF hasResult THEN Some(Last(rest)) ELSE None
                      paramsOpt == IF params = <<>> THEN None ELSE Some(params)
                  IN  InsertType(WebidlFunction(UnwrapOr(kind, KindStatic),
                                                UnwrapOr(paramsOpt, <<>>),
                                                result),
                                 "webidl_function")

\* fn webidl_dictionary(&mut self, fields) -> WebidlDictionaryId, its fields
\* built by webidl_dictionary_field(name, ty)
webidl_dictionary ==
    /\ Len(stack) <= Len(FieldNames)
    /\ InsertType(WebidlDictionary(
            [i \in 1..Len(stack) |-> WebidlDictionaryField(FieldNames[i], stack[i].v)]),
            "webidl_dictionary")

\* fn webidl_enumeration(&mut self, values) -> WebidlEnumerationId
webidl_enumeration ==
    /\ stack = <<>>
    /\ \E values \in EnumValues :
           InsertType(WebidlEnumeration(values), "webidl_enumeration")

\* fn webidl_union(&mut self, members) -> WebidlUnionId
webidl_union ==
    InsertType(WebidlUnion(Values(stack)), "webidl_union")

\* fn webidl_type(&mut self, name: Option<&str>, ty: Id<WebidlCompoundType>)
\* (For comparison, a faulty webidl_type: the name goes into the name tables
\* of both registries.)
webidl_type_both_tables(name) ==
    /\ phase = "types"
    /\ pending.some
    /\ types' = IF name.some THEN record_name(types, name.val, pending.val)
                ELSE types
    /\ bindings' = IF name.some THEN record_name(bindings, name.val, pending.val)
                   ELSE bindings
    /\ pending' = None
    /\ ret' = None
    /\ issued' = [issued EXCEPT !.types[Len(issued.types)].name = name]
    /\ op' = [name |-> "webidl_type", arg |-> name, ty |-> pending.val]
    /\ UNCHANGED <<binds, phase, stack, nodes, exprs>>
webidl_type(name) ==
    /\ phase = "types"
    /\ pending.some
    /\ types' = IF name.some THEN record_name(types, name.val, pending.val)
                ELSE types
    /\ pending' = None
    /\ ret' = None
    /\ issued' = [issued EXCEPT !.types[Len(issued.types)].name = name]
    /\ op' = [name |-> "webidl_type", arg |-> name, ty |-> pending.val]
    /\ UNCHANGED <<bindings, binds, phase, stack, nodes, exprs>>

\* fn webidl_type_subsection(&mut self, _types: Vec<()>) {}
webidl_type_subsection ==
    /\ phase = "types"
    /\ pending = None
    /\ stack = <<>>
    /\ phase' = "bindings"
    /\ ret' = None
    /\ op' = [name |-> "webidl_type_subsection"]
    /\ UNCHANGED <<types, bindings, binds, stack, pending, nodes, exprs, issued>>

OptNames == {None} \cup {Some(n) : n \in Names}

NextTypes ==
    \/ \E name \in Names : webidl_type_ref_named(name)
    \/ \E idx \in 0..MaxTypes : webidl_type_ref_indexed(idx)
    \/ \E s \in Scalars : webidl_scalar_type(s)
    \/ webidl_function
    \/ webidl_dictionary
    \/ webidl_enumeration
    \/ webidl_union
    \/ \E name \in OptNames : webidl_type(name)
    \/ webidl_type_subsection

\* ------------------------------------------------- host module lookups
\* self.module.types.by_name(name) / self.module.funcs.by_name(name)
HostByName(table, name) ==
    IF name \in DOMAIN table THEN Some(table[name]) ELSE None
\* self.ids.get_type(idx).ok() / self.ids.get_func(idx).ok()
HostByIndex(ids, idx) == IF idx \in ids THEN Some(idx) ELSE None

\* A host function type is expected: as the wasm_ty that opens a binding,
\* or as the ty that opens a bind-import expression.
ExpectsWasmType ==
    /\ phase = "bindings"
    /\ \/ stack = <<>> /\ Room(1)
       \/ Len(stack) >= 2 /\ ExprRoom(0) /\ CountKind(stack, "wasm_ty") < 2

\* fn wasm_func_type_ref_named(&mut self, name: &str) -> Option<walrus::TypeId>
wasm_func_type_ref_named(name) ==
    /\ ExpectsWasmType
    /\ LET r == HostByName(WasmTypeNames, name)
       IN  /\ ret' = r
           /\ Keep("wasm_ty", r)
    /\ op' = [name |-> "wasm_func_type_ref_named", arg |-> name]
    /\ UNCHANGED <<types, bindings, binds, pending, nodes, exprs, issued>>

\* fn wasm_func_type_ref_indexed(&mut self, idx: u32) -> Option<walrus::TypeId>
wasm_func_type_ref_indexed(idx) ==
    /\ ExpectsWasmType
    /\ LET r == HostByIndex(WasmTypeIds, idx)
       IN  /\ ret' = r
           /\ Keep("wasm_ty", r)
    /\ op' = [name |-> "wasm_func_type_ref_indexed", arg |-> idx]
    /\ UNCHANGED <<types, bindings, binds, pending, nodes, exprs, issued>>

\* The bind statements follow the bindings: the first host function
\* reference opens them.
KeepFunc(r) ==
    IF r.some
    THEN /\ stack' = Append(stack, Val("func", r.val))
         /\ phase' = "binds"
    ELSE /\ stack' = <<>>
         /\ phase' = "aborted"

ExpectsWasmFunc ==
    /\ phase \in {"bindings", "binds"}
    /\ stack = <<>>
    /\ Room(1)

\* fn wasm_func_ref_named(&mut self, name: &str) -> Option<walrus::FunctionId>
wasm_func_ref_named(name) ==
    /\ ExpectsWasmFunc
    /\ LET r == HostByName(WasmFuncNames, name)
       IN  /\ ret' = r
           /\ KeepFunc(r)
    /\ op' = [name |-> "wasm_func_ref_named", arg |-> name]
    /\ UNCHANGED <<types, bindings, binds, pending, nodes, exprs, issued>>

\* fn wasm_func_ref_indexed(&mut self, idx: u32) -> Option<walrus::FunctionId>
wasm_func_ref_indexed(idx) ==
    /\ ExpectsWasmFunc
    /\ LET r == HostByIndex(WasmFuncIds, idx)
       IN  /\ ret' = r
           /\ KeepFunc(r)
    /\ op' = [name |-> "wasm_func_ref_indexed", arg |-> idx]
    /\ UNCHANGED <<types, bindings, binds, pending, nodes, exprs, issued>>

\* A binding reference is expected: after the type of a bind-export, after
\* the host type of a bind-import, or after the function of a bind.
ExpectsBindingRef ==
    \/ /\ phase = "bindings"
       /\ ExprRoom(0)
       /\ Len(stack) >= 3
       /\ Last(stack).k \in {"tyref", "wasm_ty"}
    \/ /\ phase = "binds"
       /\ Len(stack) = 1

\* fn binding_ref_named(&mut self, name: &str) -> Option<Id<FunctionBinding>>
binding_ref_named(name) ==
    /\ ExpectsBindingRef
    /\ LET r == by_name(bindings, name)
       IN  /\ ret' = r
           /\ Keep("bref", r)
    /\ op' = [name |-> "binding_ref_named", arg |-> name]
    /\ UNCHANGED <<types, bindings, binds, pending, nodes, exprs, issued>>

\* (For comparison, a faulty binding_ref_indexed: the index one past the end
\* resolves to the binding about to be inserted.)
binding_ref_indexed_forward(idx) ==
    /\ ExpectsBindingRef
    /\ LET r == IF idx = Len(bindings.indices) THEN Some(InsertId(bindings))
                ELSE by_index(bindings, idx)
       IN  /\ ret' = r
           /\ Keep("bref", r)
    /\ op' = [name |-> "binding_ref_indexed", arg |-> idx]
    /\ UNCHANGED <<types, bindings, binds, pending, nodes, exprs, issued>>

\* fn binding_ref_indexed(&mut self, idx: u32) -> Option<Id<FunctionBinding>>
binding_ref_indexed(idx) ==
    /\ ExpectsBindingRef
    /\ LET r == by_index(bindings, idx)
       IN  /\ ret' = r
           /\ Keep("bref", r)
    /\ op' = [name |-> "binding_ref_indexed", arg |-> idx]
    /\ UNCHANGED <<types, bindings, binds, pending, nodes, exprs, issued>>

NextRefs ==
    \/ \E name \in HostNames : wasm_func_type_ref_named(name)
    \/ \E idx \in 0..1 : wasm_func_type_ref_indexed(idx)
    \/ \E name \in HostNames : wasm_func_ref_named(name)
    \/ \E idx \in 0..2 : wasm_func_ref_indexed(idx)
    \/ \E name \in Names : binding_ref_named(name)
    \/ \E idx \in 0..MaxNodes : binding_ref_indexed(idx)

\* ------------------------------------------------ expression productions
\* An expression production replaces the n values it was built from (the
\* top of the stack) by the expression it returns.
Reduce(n, kind, expr, opname) ==
    /\ phase = "bindings"
    /\ ExprRoom(0)
    /\ stack' = Append(DropLast(stack, n), Val(kind, expr))
    /\ exprs' = exprs + 1
    /\ nodes' = nodes + ExprCost
    /\ ret' = Some(expr)
    /\ op' = [name |-> opname]
    /\ UNCHANGED <<types, bindings, binds, phase, pending, issued>>

\* The top of the stack is the type reference of an expression (the
\* reference at position 2 is the webidl_ty of the binding).
TopIsExprType(n) ==
    /\ Len(stack) - n + 1 >= 3
    /\ FromTop(stack, n).k = "tyref"

\* fn outgoing_binding_expression_as(&mut self, ty, idx)
outgoing_binding_expression_as ==
    /\ TopIsExprType(1)
    /\ \E idx \in Idxs :
         Reduce(1, "out", OutAs(Last(stack).v, idx), "outgoing_binding_expression_as")

\* fn outgoing_binding_expression_utf8_str(&mut self, ty, offset, length)
outgoing_binding_expression_utf8_str ==
    /\ TopIsExprType(1)
    /\ \E offset \in Offsets, length \in Lengths :
         Reduce(1, "out", OutUtf8Str(Last(stack).v, offset, length),
                "outgoing_binding_expression_utf8_str")

\* fn outgoing_binding_expression_utf8_c_str(&mut self, ty, offset)
outgoing_binding_expression_utf8_c_str ==
    /\ TopIsExprType(1)
    /\ \E offset \in Offsets :
         Reduce(1, "out", OutUtf8CStr(Last(stack).v, offset),
                "outgoing_binding_expression_utf8_c_str")

\* fn outgoing_binding_expression_i32_to_enum(&mut self, ty, idx)
outgoing_binding_expression_i32_to_enum ==
    /\ TopIsExprType(1)
    /\ \E idx \in Idxs :
         Reduce(1, "out", OutI32ToEnum(Last(stack).v, idx),
                "outgoing_binding_expression_i32_to_enum")

\* fn outgoing_binding_expression_view(&mut self, ty, offset, length)
outgoing_binding_expression_view ==
    /\ TopIsExprType(1)
    /\ \E offset \in Offsets, length \in Lengths :
         Reduce(1, "out", OutView(Last(stack).v, offset, length),
                "outgoing_binding_expression_view")

\* fn outgoing_binding_expression_copy(&mut self, ty, offset, length)
outgoing_binding_expression_copy ==
    /\ TopIsExprType(1)
    /\ \E offset \in Offsets, length \in Lengths :
         Reduce(1, "out", OutCopy(Last(stack).v, offset, length),
                "outgoing_binding_expression_copy")

\* fn outgoing_binding_expression_dict(&mut self, ty, fields): the fields
\* are the n outgoing expressions built since the type reference.
outgoing_binding_expression_dict ==
    \E n \in 0..MaxNodes :
        /\ n < Len(stack)
        /\ TopIsExprType(n + 1)
        /\ AllKind(SubSeq(stack, Len(stack) - n + 1, Len(stack)), "out")
        /\ Reduce(n + 1, "out",
                  OutDict(FromTop(stack, n + 1).v,
                          Values(SubSeq(stack, Len(stack) - n + 1, Len(stack)))),
                  "outgoing_binding_expression_dict")

\* fn outgoing_binding_expression_bind_export(&mut self, ty, binding, idx)
outgoing_binding_expression_bind_export ==
    /\ Len(stack) >= 4
    /\ TopIsExprType(2)
    /\ Last(stack).k = "bref"
    /\ \E idx \in Idxs :
         Reduce(2, "out", OutBindExport(FromTop(stack, 2).v, Last(stack).v, idx),
                "outgoing_binding_expression_bind_export")

\* fn incoming_binding_expression_get(&mut self, idx)
incoming_binding_expression_get ==
    /\ Len(stack) >= 2
    /\ \E idx \in Idxs :
         Reduce(0, "in", InGet(idx), "incoming_binding_expression_get")

TopIsIncoming == Len(stack) >= 3 /\ Last(stack).k = "in"

\* fn incoming_binding_expression_as(&mut self, ty: walrus::ValType, expr);
\* ty comes from a wasm_val_type_* production.
incoming_binding_expression_as ==
    /\ TopIsIncoming
    /\ \E ty \in ValTypes :
         Reduce(1, "in", InAs(ty, Last(stack).v), "incoming_binding_expression_as")

\* fn incoming_binding_expression_alloc_utf8_str(&mut self, alloc_func_name, expr)
incoming_binding_expression_alloc_utf8_str ==
    /\ TopIsIncoming
    /\ \E name \in AllocNames :
         Reduce(1, "in", InAllocUtf8Str(name, Last(stack).v),
                "incoming_binding_expression_alloc_utf8_str")

\* fn incoming_binding_expression_alloc_copy(&mut self, alloc_func_name, expr)
incoming_binding_expression_alloc_copy ==
    /\ TopIsIncoming
    /\ \E name \in AllocNames :
         Reduce(1, "in", InAllocCopy(name, Last(stack).v),
                "incoming_binding_expression_alloc_copy")

\* fn incoming_binding_expression_enum_to_i32(&mut self, ty, expr)
incoming_binding_expression_enum_to_i32 ==
    /\ TopIsIncoming
    /\ TopIsExprType(2)
    /\ Reduce(2, "in", InEnumToI32(FromTop(stack, 2).v, Last(stack).v),
              "incoming_binding_expression_enum_to_i32")

\* fn incoming_binding_expression_field(&mut self, idx, expr)
incoming_binding_expression_field ==
    /\ TopIsIncoming
    /\ \E idx \in Idxs :
         Reduce(1, "in", InField(idx, Last(stack).v), "incoming_binding_expression_field")

\* fn incoming_binding_expression_bind_import(&mut self, ty, binding, expr)
incoming_binding_expression_bind_import ==
    /\ Len(stack) >= 5
    /\ TopIsIncoming
    /\ FromTop(stack, 2).k = "bref"
    /\ FromTop(stack, 3).k = "wasm_ty"
    /\ Reduce(3, "in",
              InBindImport(FromTop(stack, 3).v, FromTop(stack, 2).v, Last(stack).v),
              "incoming_binding_expression_bind_import")

NextExprs ==
    \/ outgoing_binding_expression_as
    \/ outgoing_binding_expression_utf8_str
    \/ outgoing_binding_expression_utf8_c_str
    \/ outgoing_binding_expression_i32_to_enum
    \/ outgoing_binding_expression_view
    \/ outgoing_binding_expression_copy
    \/ outgoing_binding_expression_dict
    \/ outgoing_binding_expression_bind_export
    \/ incoming_binding_expression_get
    \/ incoming_binding_expression_as
    \/ incoming_binding_expression_alloc_utf8_str
    \/ incoming_binding_expression_alloc_copy
    \/ incoming_binding_expression_enum_to_i32
    \/ incoming_binding_expression_field
    \/ incoming_binding_expression_bind_import

\* ---------------------------------------------- binding and bind productions
\* The stack of a finished binding: its wasm_ty, its webidl_ty, then the
\* expressions of its params map and of its result map.
BindingReady(m, paramKind, resultKind) ==
    /\ phase = "bindings"
    /\ Room(1)
    /\ Len(stack) >= 2
    /\ stack[1].k = "wasm_ty"
    /\ stack[2].k = "tyref"
    /\ m \in 2..Len(stack)
    /\ AllKind(SubSeq(stack, 3, m), paramKind)
    /\ AllKind(SubSeq(stack, m + 1, Len(stack)), resultKind)

\* (For comparison, a faulty insertion: the binding's name is recorded in the
\* Type Table's names as well.)
InsertBinding_shared_names(name, entry, opname) ==
    /\ bindings' = LET t == insert(bindings, entry)
                   IN  IF name.some
                       THEN record_name(t, name.val, InsertRet(bindings, entry).id)
                       ELSE t
    /\ types' = IF name.some
                THEN record_name(types, name.val, InsertRet(bindings, entry).id)
                ELSE types
    /\ issued' = [issued EXCEPT !.bindings =
                      Append(@, Issued(InsertRet(bindings, entry), entry, name))]
    /\ stack' = <<>>
    /\ nodes' = nodes + 1
    /\ ret' = None
    /\ op' = [name |-> opname, arg |-> name, entry |-> entry]
    /\ UNCHANGED <<binds, phase, pending, exprs>>
\* (For comparison, a faulty insertion: the entry is indexed but its name is
\* not recorded.)
InsertBinding_name_dropped(name, entry, opname) ==
    /\ bindings' = insert(bindings, entry)
    /\ issued' = [issued EXCEPT !.bindings =
                      Append(@, Issued(InsertRet(bindings, entry), entry, name))]
    /\ stack' = <<>>
    /\ nodes' = nodes + 1
    /\ ret' = None
    /\ op' = [name |-> opname, arg |-> name, entry |-> entry]
    /\ UNCHANGED <<types, binds, phase, pending, exprs>>
InsertBinding(name, entry, opname) ==
    /\ bindings' = LET t == insert(bindings, entry)
                   IN  IF name.some
                       THEN record_name(t, name.val, InsertRet(bindings, entry).id)
                       ELSE t
    /\ issued' = [issued EXCEPT !.bindings =
                      Append(@, Issued(InsertRet(bindings, entry), entry, name))]
    /\ stack' = <<>>
    /\ nodes' = nodes + 1
    /\ ret' = None
    /\ op' = [name |-> opname, arg |-> name, entry |-> entry]
    /\ UNCHANGED <<types, binds, phase, pending, exprs>>

\* fn import_binding(&mut self, name, wasm_ty, webidl_ty, params, result);
\* params and result were wrapped by outgoing_binding_map and
\* incoming_binding_map.
import_binding(name) ==
    \E m \in 2..(MaxNodes + 2) :
        /\ BindingReady(m, "out", "in")
        /\ InsertBinding(name,
               ImportBinding(stack[1].v, stack[2].v,
                   OutgoingBindingMap(Values(SubSeq(stack, 3, m))),
                   IncomingBindingMap(Values(SubSeq(stack, m + 1, Len(stack))))),
               "import_binding")

\* fn export_binding(&mut self, name, wasm_ty, webidl_ty, params, result)
export_binding(name) ==
    \E m \in 2..(MaxNodes + 2) :
        /\ BindingReady(m, "in", "out")
        /\ InsertBinding(name,
               ExportBinding(stack[1].v, stack[2].v,
                   IncomingBindingMap(Values(SubSeq(stack, 3, m))),
                   OutgoingBindingMap(Values(SubSeq(stack, m + 1, Len(stack))))),
               "export_binding")

\* Binds::insert: self.arena.alloc(bind)
\* (For comparison, a faulty insert: an equal Bind is not inserted again.)
binds_insert_dedup(arena, b) ==
    IF \E i \in DOMAIN arena : arena[i] = b THEN arena ELSE ArenaAlloc(arena, b)
binds_insert(arena, b) == ArenaAlloc(arena, b)

\* fn bind(&mut self, func: walrus::FunctionId, binding: Id<FunctionBinding>)
bind ==
    /\ phase = "binds"
    /\ Room(1)
    /\ Len(stack) = 2
    /\ stack[1].k = "func"
    /\ stack[2].k = "bref"
    /\ binds' = binds_insert(binds, Bind(stack[1].v, stack[2].v))
    /\ issued' = [issued EXCEPT !.binds =
                      Append(@, Issued(ArenaNextId(binds),
                                       Bind(stack[1].v, stack[2].v), None))]
    /\ stack' = <<>>
    /\ nodes' = nodes + 1
    /\ ret' = None
    /\ op' = [name |-> "bind", entry |-> Bind(stack[1].v, stack[2].v)]
    /\ UNCHANGED <<types, bindings, phase, pending, exprs>>

\* fn webidl_function_bindings_subsection(&mut self, _bindings, _binds) {}
webidl_function_bindings_subsection ==
    /\ phase \in {"bindings", "binds"}
    /\ stack = <<>>
    /\ phase' = "section"
    /\ ret' = None
    /\ op' = [name |-> "webidl_function_bindings_subsection"]
    /\ UNCHANGED <<types, bindings, binds, stack, pending, nodes, exprs, issued>>

\* fn webidl_bindings_section(&mut self, _types: (), _bindings: ()) {}
\* The parser returns and the borrow of the section ends.
webidl_bindings_section ==
    /\ phase = "section"
    /\ phase' = "done"
    /\ ret' = None
    /\ op' = [name |-> "webidl_bindings_section"]
    /\ UNCHANGED <<types, bindings, binds, stack, pending, nodes, exprs, issued>>

NextBindings ==
    \/ \E name \in OptNames : import_binding(name)
    \/ \E name \in OptNames : export_binding(name)
    \/ bind
    \/ webidl_function_bindings_subsection
    \/ webidl_bindings_section

\* ------------------------------------------------ the tables' public API
\* Called by the owner of the section once the builder's borrow has ended.
Released == phase \in {"done", "aborted"}

Call(opname, arg, result) ==
    /\ Released
    /\ op' = [name |-> opname, arg |-> arg]
    /\ ret' = result
    /\ UNCHANGED <<phase, stack, pending, nodes, exprs, issued>>

\* WebidlTypes::by_name / FunctionBindings::by_name
types_by_name(name) ==
    /\ Call("types.by_name", name, by_name(types, name))
    /\ UNCHANGED <<types, bindings, binds>>
bindings_by_name(name) ==
    /\ Call("bindings.by_name", name, by_name(bindings, name))
    /\ UNCHANGED <<types, bindings, binds>>

\* WebidlTypes::by_index / FunctionBindings::by_index
types_by_index(index) ==
    /\ Call("types.by_index", index, by_index(types, index))
    /\ UNCHANGED <<types, bindings, binds>>
bindings_by_index(index) ==
    /\ Call("bindings.by_index", index, by_index(bindings, index))
    /\ UNCHANGED <<types, bindings, binds>>

\* WebidlTypes::get / FunctionBindings::get
types_get(tid) ==
    /\ Call("types.get", tid, get(types, tid))
    /\ UNCHANGED <<types, bindings, binds>>
bindings_get(tid) ==
    /\ Call("bindings.get", tid, get(bindings, tid))
    /\ UNCHANGED <<types, bindings, binds>>

\* What a caller can do with the &mut T that get_mut returns: assign the
\* fields of the struct T. The enum tag of the arena entry is out of reach.
TypePayloadWrites(view) ==
    CASE view = "Function"    -> {WebidlFunction(KindStatic, <<>>, None)}
      [] view = "Dictionary"  -> {WebidlDictionary(<<>>)}
      [] view = "Enumeration" -> {WebidlEnumeration(<<>>)}
      [] view = "Union"       -> {WebidlUnion(<<>>)}
BindingPayloadWrites(view) ==
    CASE view = "Import" ->
           {ImportBinding(0, RefScalar("Long"),
                          OutgoingBindingMap(<<>>), IncomingBindingMap(<<InGet(1)>>))}
      [] view = "Export" ->
           {ExportBinding(0, RefScalar("Long"),
                          IncomingBindingMap(<<InGet(1)>>), OutgoingBindingMap(<<>>))}

\* get_mut: self.arena.get_mut(id.into()).and_then(T::get_mut), followed by
\* the caller's write through the reference when there is one.
\* (For comparison, a faulty get_mut: no check of the entry's variant.)
get_mut_unchecked(table, tid, new) ==
    IF ArenaGet(table.arena, tid.id).some
    THEN [table EXCEPT !.arena[tid.id + 1] = new]
    ELSE table
\* (For comparison, a faulty get_mut: the entry written is indexed again.)
get_mut_reindexing(table, tid, new) ==
    IF get(table, tid).some
    THEN [table EXCEPT !.arena[tid.id + 1] = new,
                       !.indices = Append(@, tid.id)]
    ELSE table
get_mut(table, tid, new) ==
    IF get(table, tid).some
    THEN [table EXCEPT !.arena[tid.id + 1] = new]
    ELSE table

types_get_mut(tid) ==
    /\ Call("types.get_mut", tid, get(types, tid))
    /\ \E new \in TypePayloadWrites(tid.view) : types' = get_mut(types, tid, new)
    /\ UNCHANGED <<bindings, binds>>
bindings_get_mut(tid) ==
    /\ Call("bindings.get_mut", tid, get(bindings, tid))
    /\ \E new \in BindingPayloadWrites(tid.view) :
           bindings' = get_mut(bindings, tid, new)
    /\ UNCHANGED <<types, binds>>

\* Binds::get / Binds::get_mut
binds_get(id) ==
    /\ Call("binds.get", id, ArenaGet(binds, id))
    /\ UNCHANGED <<types, bindings, binds>>
binds_get_mut(id) ==
    /\ Call("binds.get_mut", id, ArenaGet(binds, id))
    /\ binds' = IF ArenaGet(binds, id).some
                THEN [binds EXCEPT ![id + 1] = Bind(0, 0)]
                ELSE binds
    /\ UNCHANGED <<types, bindings>>

\* The typed identifiers a caller may present: any view over any raw id up
\* to the first one not issued.
TypeIds    == {wrap(v, id) : v \in TypeViews, id \in 0..Len(types.arena)}
BindingIds == {wrap(v, id) : v \in BindingViews, id \in 0..Len(bindings.arena)}

NextApi ==
    \/ \E name \in Names : types_by_name(name)
    \/ \E name \in Names : bindings_by_name(name)
    \/ \E index \in 0..Len(types.indices) : types_by_index(index)
    \/ \E index \in 0..Len(bindings.indices) : bindings_by_index(index)
    \/ \E tid \in TypeIds : types_get(tid)
    \/ \E tid \in BindingIds : bindings_get(tid)
    \/ \E tid \in TypeIds : types_get_mut(tid)
    \/ \E tid \in BindingIds : bindings_get_mut(tid)
    \/ \E id \in 0..Len(binds) : binds_get(id)
    \/ \E id \in 0..Len(binds) : binds_get_mut(id)

\* ------------------------------------------------------- binary codec
\* crate::binary is not among the sources; what follows is the wire format
\* of the specification (section 4.5): three tables in the order types,
\* bindings, binds, each a count followed by its entries. A token of the
\* wire is a natural number; a string is the token of its code.
ScalarTypes ==
    <<"Any", "Boolean", "Byte", "Octet", "Long", "UnsignedLong", "Short",
      "UnsignedShort", "LongLong", "UnsignedLongLong", "Float",
      "UnrestrictedFloat", "Double", "UnrestrictedDouble", "DomString",
      "ByteString", "UsvString", "Object", "Symbol", "ArrayBuffer", "DataView",
      "Int8Array", "Int16Array", "Int32Array", "Uint8Array", "Uint16Array",
      "Uint32Array", "Uint8ClampedArray", "Float32Array", "Float64Array">>
Strings    == <<"a", "b", "x", "y", "u", "v", "malloc">>
ValTypeSeq == <<"I32", "I64", "F32", "F64", "V128", "Anyref">>
TypeKinds  == <<"Function", "Dictionary", "Enumeration", "Union">>
OutKinds   == <<"As", "Utf8Str", "Utf8CStr", "I32ToEnum", "View", "Copy",
                "Dict", "BindExport">>
InKinds    == <<"Get", "As", "AllocUtf8Str", "AllocCopy", "EnumToI32", "Field",
                "BindImport">>

\* F applied to the value of e, with e evaluated once.
With(e, F(_)) == CHOOSE r \in {F(x) : x \in {e}} : TRUE

\* Position of x in the sequence s, from 0.
IndexIn(s, x) == (CHOOSE i \in DOMAIN s : s[i] = x) - 1

\* walrus::IdsToIndices and walrus::IndicesToIds of the host module: the
\* module numbers its functions in its own order.
FuncIdToIndex == [id \in WasmFuncIds |-> 1 - id]
TypeIdToIndex == [id \in WasmTypeIds |-> id]
FuncIndexToId(i) ==
    IF \E id \in WasmFuncIds : FuncIdToIndex[id] = i
    THEN Some(CHOOSE id \in WasmFuncIds : FuncIdToIndex[id] = i) ELSE None
TypeIndexToId(i) ==
    IF \E id \in WasmTypeIds : TypeIdToIndex[id] = i
    THEN Some(CHOOSE id \in WasmTypeIds : TypeIdToIndex[id] = i) ELSE None

RECURSIVE Concat(_)
Concat(ss) == IF ss = <<>> THEN <<>> ELSE Head(ss) \o Concat(Tail(ss))

\* ---- encode
\* The encoder writes numbers; Tok keeps, next to each number, whether it
\* is the declaration index of a type ("type"), of a binding ("binding"),
\* or anything else ("no").
Tok(v, ref) == [v |-> v, ref |-> ref]
Num(v)      == <<Tok(v, "no")>>
EncStr(str) == Num(IndexIn(Strings, str))
\* (For comparison, a faulty encoder: every entry is written without a name.)
EncNameAnonymous(table, id) == Num(0)
EncName(table, id) ==
    IF \E n \in DOMAIN table.names : table.names[n] = id
    THEN Num(1) \o EncStr(CHOOSE n \in DOMAIN table.names : table.names[n] = id)
    ELSE Num(0)
\* A reference is written as the declaration index of its entry.
EncTypeIndex(id)    == <<Tok(IndexIn(types.indices, id), "type")>>
EncBindingIndex(id) == <<Tok(IndexIn(bindings.indices, id), "binding")>>
EncTypeRef(ref) ==
    IF ref.tag = "Scalar"
    THEN Num(IndexIn(ScalarTypes, ref.scalar) + 1)
    ELSE Num(0) \o EncTypeIndex(ref.id)
EncTypeRefs(refs) ==
    Num(Len(refs)) \o Concat([i \in DOMAIN refs |-> EncTypeRef(refs[i])])

EncFunctionKind(kind) ==
    CASE kind.tag = "Static"      -> Num(0)
      [] kind.tag = "Method"      -> Num(1) \o EncTypeRef(kind.ty)
      [] kind.tag = "Constructor" -> Num(2)
EncCompound(e) ==
    CASE e.variant = "Function" ->
           EncFunctionKind(e.kind) \o EncTypeRefs(e.params)
           \o (IF e.result.some THEN Num(1) \o EncTypeRef(e.result.val) ELSE Num(0))
      [] e.variant = "Dictionary" ->
           Num(Len(e.fields))
           \o Concat([i \in DOMAIN e.fields |->
                         EncStr(e.fields[i].name) \o EncTypeRef(e.fields[i].ty)])
      [] e.variant = "Enumeration" ->
           Num(Len(e.values)) \o Concat([i \in DOMAIN e.values |-> EncStr(e.values[i])])
      [] e.variant = "Union" -> EncTypeRefs(e.members)
EncType(id) ==
    LET e == types.arena[id + 1]
    IN  Num(IndexIn(TypeKinds, e.variant)) \o EncName(types, id) \o EncCompound(e)

RECURSIVE EncOut(_)
EncOut(e) ==
    Num(IndexIn(OutKinds, e.variant)) \o EncTypeRef(e.ty) \o
    CASE e.variant \in {"As", "I32ToEnum"} -> Num(e.idx)
      [] e.variant \in {"Utf8Str", "View", "Copy"} -> Num(e.offset) \o Num(e.length)
      [] e.variant = "Utf8CStr" -> Num(e.offset)
      [] e.variant = "Dict" ->
           Num(Len(e.fields)) \o Concat([i \in DOMAIN e.fields |-> EncOut(e.fields[i])])
      [] e.variant = "BindExport" -> EncBindingIndex(e.binding) \o Num(e.idx)

RECURSIVE EncIn(_)
EncIn(e) ==
    Num(IndexIn(InKinds, e.variant)) \o
    CASE e.variant = "Get" -> Num(e.idx)
      [] e.variant = "As" -> Num(IndexIn(ValTypeSeq, e.ty)) \o EncIn(e.expr)
      [] e.variant \in {"AllocUtf8Str", "AllocCopy"} ->
           EncStr(e.alloc_func_name) \o EncIn(e.expr)
      [] e.variant = "EnumToI32" -> EncTypeRef(e.ty) \o EncIn(e.expr)
      [] e.variant = "Field" -> Num(e.idx) \o EncIn(e.expr)
      [] e.variant = "BindImport" ->
           Num(TypeIdToIndex[e.ty]) \o EncBindingIndex(e.binding) \o EncIn(e.expr)

EncOutMap(m) ==
    Num(Len(m.bindings)) \o Concat([i \in DOMAIN m.bindings |-> EncOut(m.bindings[i])])
EncInMap(m) ==
    Num(Len(m.bindings)) \o Concat([i \in DOMAIN m.bindings |-> EncIn(m.bindings[i])])

EncBinding(id) ==
    LET b == bindings.arena[id + 1]
    IN  Num(IF b.variant = "Import" THEN 0 ELSE 1) \o EncName(bindings, id)
        \o Num(TypeIdToIndex[b.wasm_ty]) \o EncTypeRef(b.webidl_ty)
        \o (IF b.variant = "Import"
            THEN EncOutMap(b.params) \o EncInMap(b.result)
            ELSE EncInMap(b.params) \o EncOutMap(b.result))

EncBind(b) == Num(FuncIdToIndex[b.func]) \o EncBindingIndex(b.binding)

\* The three tables of the section, in wire order.
EncTypeTable ==
    Num(Len(types.indices))
    \o Concat([i \in DOMAIN types.indices |-> EncType(types.indices[i])])
EncBindingTable ==
    Num(Len(bindings.indices))
    \o Concat([i \in DOMAIN bindings.indices |-> EncBinding(bindings.indices[i])])
EncBindTable ==
    Num(Len(binds)) \o Concat([i \in DOMAIN binds |-> EncBind(binds[i])])
Layout == EncTypeTable \o EncBindingTable \o EncBindTable

\* crate::binary::encode(self, ids_to_indices, &mut data)
encode == With(Layout, LAMBDA layout : [i \in DOMAIN layout |-> layout[i].v])

\* ---- decode
\* A decoding step at position p of the wire w: a value and the position
\* after it, or a failure (malformed section). Then goes on with F after a
\* step that succeeded and fails after one that failed.
Ok(v, p) == [ok |-> TRUE, v |-> v, p |-> p]
Fail     == [ok |-> FALSE]
Then(step, F(_)) == With(step, LAMBDA x : IF x.ok THEN F(x) ELSE Fail)
Rd(w, p) == IF p <= Len(w) THEN Ok(w[p], p + 1) ELSE Fail

DecStr(w, p) ==
    Then(Rd(w, p), LAMBDA c :
        IF c.v < Len(Strings) THEN Ok(Strings[c.v + 1], c.p) ELSE Fail)

\* A reference must name an entry decoded so far.
\* (For comparison, a faulty decoder: the index is not looked up.)
DecTypeRefUnchecked(w, p, ts) ==
    Then(Rd(w, p), LAMBDA d :
        IF d.v = 0
        THEN Then(Rd(w, d.p), LAMBDA i : Ok(RefId(i.v), i.p))
        ELSE IF d.v <= Len(ScalarTypes)
        THEN Ok(RefScalar(ScalarTypes[d.v]), d.p)
        ELSE Fail)
DecTypeRef(w, p, ts) ==
    Then(Rd(w, p), LAMBDA d :
        IF d.v = 0
        THEN Then(Rd(w, d.p), LAMBDA i :
                 With(by_index(ts, i.v), LAMBDA id :
                     IF id.some THEN Ok(RefId(id.val), i.p) ELSE Fail))
        ELSE IF d.v <= Len(ScalarTypes)
        THEN Ok(RefScalar(ScalarTypes[d.v]), d.p)
        ELSE Fail)

\* A binding reference, likewise.
DecBindingRef(w, p, bs) ==
    Then(Rd(w, p), LAMBDA i :
        With(by_index(bs, i.v), LAMBDA id :
            IF id.some THEN Ok(id.val, i.p) ELSE Fail))

\* Host identifiers, through walrus::IndicesToIds.
DecHostType(w, p) ==
    Then(Rd(w, p), LAMBDA i :
        IF TypeIndexToId(i.v).some THEN Ok(TypeIndexToId(i.v).val, i.p) ELSE Fail)
DecHostFunc(w, p) ==
    Then(Rd(w, p), LAMBDA i :
        IF FuncIndexToId(i.v).some THEN Ok(FuncIndexToId(i.v).val, i.p) ELSE Fail)

RECURSIVE DecTypeRefList(_, _, _, _)
DecTypeRefList(w, p, n, ts) ==
    IF n = 0 THEN Ok(<<>>, p)
    ELSE Then(DecTypeRef(w, p, ts), LAMBDA r :
         Then(DecTypeRefList(w, r.p, n - 1, ts), LAMBDA rest :
             Ok(<<r.v>> \o rest.v, rest.p)))
DecTypeRefs(w, p, ts) ==
    Then(Rd(w, p), LAMBDA n : DecTypeRefList(w, n.p, n.v, ts))

RECURSIVE DecFieldList(_, _, _, _)
DecFieldList(w, p, n, ts) ==
    IF n = 0 THEN Ok(<<>>, p)
    ELSE Then(DecStr(w, p), LAMBDA name :
         Then(DecTypeRef(w, name.p, ts), LAMBDA ty :
         Then(DecFieldList(w, ty.p, n - 1, ts), LAMBDA rest :
             Ok(<<WebidlDictionaryField(name.v, ty.v)>> \o rest.v, rest.p))))

RECURSIVE DecStrList(_, _, _)
DecStrList(w, p, n) ==
    IF n = 0 THEN Ok(<<>>, p)
    ELSE Then(DecStr(w, p), LAMBDA str :
         Then(DecStrList(w, str.p, n - 1), LAMBDA rest :
             Ok(<<str.v>> \o rest.v, rest.p)))

DecName(w, p) ==
    Then(Rd(w, p), LAMBDA f :
        IF f.v = 0 THEN Ok(None, f.p)
        ELSE IF f.v = 1
        THEN Then(DecStr(w, f.p), LAMBDA str : Ok(Some(str.v), str.p))
        ELSE Fail)

DecFunctionKind(w, p, ts) ==
    Then(Rd(w, p), LAMBDA k :
        IF k.v = 0 THEN Ok(KindStatic, k.p)
        ELSE IF k.v = 1
        THEN Then(DecTypeRef(w, k.p, ts), LAMBDA ty : Ok(KindMethod(ty.v), ty.p))
        ELSE IF k.v = 2 THEN Ok(KindConstructor, k.p)
        ELSE Fail)
DecResult(w, p, ts) ==
    Then(Rd(w, p), LAMBDA f :
        IF f.v = 0 THEN Ok(None, f.p)
        ELSE IF f.v = 1
        THEN Then(DecTypeRef(w, f.p, ts), LAMBDA r : Ok(Some(r.v), r.p))
        ELSE Fail)
DecFunction(w, p, ts) ==
    Then(DecFunctionKind(w, p, ts), LAMBDA kind :
    Then(DecTypeRefs(w, kind.p, ts), LAMBDA params :
    Then(DecResult(w, params.p, ts), LAMBDA result :
        Ok(WebidlFunction(kind.v, params.v, result.v), result.p))))

DecCompound(w, p, tag, ts) ==
    IF tag = 0 THEN DecFunction(w, p, ts)
    ELSE IF tag = 1
    THEN Then(Rd(w, p), LAMBDA n :
         Then(DecFieldList(w, n.p, n.v, ts), LAMBDA fs :
             Ok(WebidlDictionary(fs.v), fs.p)))
    ELSE IF tag = 2
    THEN Then(Rd(w, p), LAMBDA n :
         Then(DecStrList(w, n.p, n.v), LAMBDA vs :
             Ok(WebidlEnumeration(vs.v), vs.p)))
    ELSE IF tag = 3
    THEN Then(DecTypeRefs(w, p, ts), LAMBDA ms : Ok(WebidlUnion(ms.v), ms.p))
    ELSE Fail

\* An entry goes into its table the way the builder puts it there.
Declare(table, name, entry) ==
    IF name.some
    THEN record_name(insert(table, entry), name.val, InsertRet(table, entry).id)
    ELSE insert(table, entry)

RECURSIVE DecTypeEntries(_, _, _, _)
DecTypeEntries(w, p, n, ts) ==
    IF n = 0 THEN Ok(ts, p)
    ELSE Then(Rd(w, p), LAMBDA tag :
         Then(DecName(w, tag.p), LAMBDA name :
         Then(DecCompound(w, name.p, tag.v, ts), LAMBDA e :
         With(Declare(ts, name.v, e.v), LAMBDA declared :
             DecTypeEntries(w, e.p, n - 1, declared)))))

RECURSIVE DecOut(_, _, _, _)
RECURSIVE DecOutList(_, _, _, _, _)
DecOut(w, p, ts, bs) ==
    Then(Rd(w, p), LAMBDA tag :
        IF tag.v >= Len(OutKinds) THEN Fail
        ELSE
    Then(DecTypeRef(w, tag.p, ts), LAMBDA ty :
    With(OutKinds[tag.v + 1], LAMBDA kind :
        IF kind = "Dict"
        THEN Then(Rd(w, ty.p), LAMBDA n :
             Then(DecOutList(w, n.p, n.v, ts, bs), LAMBDA fs :
                 Ok(OutDict(ty.v, fs.v), fs.p)))
        ELSE IF kind = "BindExport"
        THEN Then(DecBindingRef(w, ty.p, bs), LAMBDA b :
             Then(Rd(w, b.p), LAMBDA idx :
                 Ok(OutBindExport(ty.v, b.v, idx.v), idx.p)))
        ELSE
        Then(Rd(w, ty.p), LAMBDA a :
            CASE kind = "As"        -> Ok(OutAs(ty.v, a.v), a.p)
              [] kind = "I32ToEnum" -> Ok(OutI32ToEnum(ty.v, a.v), a.p)
              [] kind = "Utf8CStr"  -> Ok(OutUtf8CStr(ty.v, a.v), a.p)
              [] kind \in {"Utf8Str", "View", "Copy"} ->
                   Then(Rd(w, a.p), LAMBDA b :
                       CASE kind = "Utf8Str" -> Ok(OutUtf8Str(ty.v, a.v, b.v), b.p)
                         [] kind = "View"    -> Ok(OutView(ty.v, a.v, b.v), b.p)
                         [] kind = "Copy"    -> Ok(OutCopy(ty.v, a.v, b.v), b.p))))))
DecOutList(w, p, n, ts, bs) ==
    IF n = 0 THEN Ok(<<>>, p)
    ELSE Then(DecOut(w, p, ts, bs), LAMBDA e :
         Then(DecOutList(w, e.p, n - 1, ts, bs), LAMBDA rest :
             Ok(<<e.v>> \o rest.v, rest.p)))

RECURSIVE DecIn(_, _, _, _)
DecIn(w, p, ts, bs) ==
    Then(Rd(w, p), LAMBDA tag :
        IF tag.v >= Len(InKinds) THEN Fail
        ELSE
    With(InKinds[tag.v + 1], LAMBDA kind :
        CASE kind = "Get" ->
               Then(Rd(w, tag.p), LAMBDA idx : Ok(InGet(idx.v), idx.p))
          [] kind = "As" ->
               Then(Rd(w, tag.p), LAMBDA ty :
                   IF ty.v >= Len(ValTypeSeq) THEN Fail
                   ELSE Then(DecIn(w, ty.p, ts, bs), LAMBDA e :
                            Ok(InAs(ValTypeSeq[ty.v + 1], e.v), e.p)))
          [] kind \in {"AllocUtf8Str", "AllocCopy"} ->
               Then(DecStr(w, tag.p), LAMBDA name :
               Then(DecIn(w, name.p, ts, bs), LAMBDA e :
                   IF kind = "AllocUtf8Str"
                   THEN Ok(InAllocUtf8Str(name.v, e.v), e.p)
                   ELSE Ok(InAllocCopy(name.v, e.v), e.p)))
          [] kind = "EnumToI32" ->
               Then(DecTypeRef(w, tag.p, ts), LAMBDA ty :
               Then(DecIn(w, ty.p, ts, bs), LAMBDA e :
                   Ok(InEnumToI32(ty.v, e.v), e.p)))
          [] kind = "Field" ->
               Then(Rd(w, tag.p), LAMBDA idx :
               Then(DecIn(w, idx.p, ts, bs), LAMBDA e :
                   Ok(InField(idx.v, e.v), e.p)))
          [] kind = "BindImport" ->
               Then(DecHostType(w, tag.p), LAMBDA ty :
               Then(DecBindingRef(w, ty.p, bs), LAMBDA b :
               Then(DecIn(w, b.p, ts, bs), LAMBDA e :
                   Ok(InBindImport(ty.v, b.v, e.v), e.p))))))

RECURSIVE DecInList(_, _, _, _, _)
DecInList(w, p, n, ts, bs) ==
    IF n = 0 THEN Ok(<<>>, p)
    ELSE Then(DecIn(w, p, ts, bs), LAMBDA e :
         Then(DecInList(w, e.p, n - 1, ts, bs), LAMBDA rest :
             Ok(<<e.v>> \o rest.v, rest.p)))

DecOutMap(w, p, ts, bs) ==
    Then(Rd(w, p), LAMBDA n :
    Then(DecOutList(w, n.p, n.v, ts, bs), LAMBDA es :
        Ok(OutgoingBindingMap(es.v), es.p)))
DecInMap(w, p, ts, bs) ==
    Then(Rd(w, p), LAMBDA n :
    Then(DecInList(w, n.p, n.v, ts, bs), LAMBDA es :
        Ok(IncomingBindingMap(es.v), es.p)))

\* A binding entry: its name and its payload.
DecBinding(w, p, ts, bs) ==
    Then(Rd(w, p), LAMBDA dir :
        IF dir.v \notin {0, 1} THEN Fail
        ELSE
    Then(DecName(w, dir.p), LAMBDA name :
    Then(DecHostType(w, name.p), LAMBDA wt :
    Then(DecTypeRef(w, wt.p, ts), LAMBDA ty :
        IF dir.v = 0
        THEN Then(DecOutMap(w, ty.p, ts, bs), LAMBDA ps :
             Then(DecInMap(w, ps.p, ts, bs), LAMBDA rs :
                 Ok([name |-> name.v,
                     entry |-> ImportBinding(wt.v, ty.v, ps.v, rs.v)], rs.p)))
        ELSE Then(DecInMap(w, ty.p, ts, bs), LAMBDA ps :
             Then(DecOutMap(w, ps.p, ts, bs), LAMBDA rs :
                 Ok([name |-> name.v,
                     entry |-> ExportBinding(wt.v, ty.v, ps.v, rs.v)], rs.p)))))))

RECURSIVE DecBindingEntries(_, _, _, _, _)
DecBindingEntries(w, p, n, ts, bs) ==
    IF n = 0 THEN Ok(bs, p)
    ELSE Then(DecBinding(w, p, ts, bs), LAMBDA b :
         With(Declare(bs, b.v.name, b.v.entry), LAMBDA declared :
             DecBindingEntries(w, b.p, n - 1, ts, declared)))

RECURSIVE DecBindEntries(_, _, _, _, _)
DecBindEntries(w, p, n, bs, acc) ==
    IF n = 0 THEN Ok(acc, p)
    ELSE Then(DecHostFunc(w, p), LAMBDA f :
         Then(DecBindingRef(w, f.p, bs), LAMBDA b :
         With(binds_insert(acc, Bind(f.v, b.v)), LAMBDA inserted :
             DecBindEntries(w, b.p, n - 1, bs, inserted))))

\* crate::binary decode: a section, or the malformed-section failure.
Malformed == [ok |-> FALSE]
Section(ts, bs, ds) == [ok |-> TRUE, types |-> ts, bindings |-> bs, binds |-> ds]
decode(w) ==
    With(Then(Rd(w, 1), LAMBDA nt :
         Then(DecTypeEntries(w, nt.p, nt.v, EmptyTable), LAMBDA ts :
         Then(Rd(w, ts.p), LAMBDA nb :
         Then(DecBindingEntries(w, nb.p, nb.v, ts.v, EmptyTable), LAMBDA bs :
         Then(Rd(w, bs.p), LAMBDA nd :
         Then(DecBindEntries(w, nd.p, nd.v, bs.v, <<>>), LAMBDA ds :
             Ok(Section(ts.v, bs.v, ds.v), ds.p))))))),
         LAMBDA r : IF r.ok THEN r.v ELSE Malformed)

\* ---- the codec at work
\* The positions of the wire that hold a type index inside the binding
\* table, and those that hold the binding index of a bind.
RefPositions(ref, start) ==
    With(Layout, LAMBDA layout :
        {p \in DOMAIN layout : layout[p].ref = ref /\ p > start})
TypeIndexPositions == RefPositions("type", Len(EncTypeTable))
BindIndexPositions ==
    RefPositions("binding", Len(EncTypeTable) + Len(EncBindingTable))

\* The encoding of the section with one such index replaced by one that is
\* not less than the size of the table it refers to.
Damaged(bytes, positions, size) ==
    {[bytes EXCEPT ![p] = size + d] : p \in positions, d \in Excess}
OutOfRangeWires ==
    With(encode, LAMBDA bytes :
        Damaged(bytes, TypeIndexPositions, Len(types.indices))
        \cup Damaged(bytes, BindIndexPositions, Len(bindings.indices)))

\* What the owner of the section may hand to the decoder: the bytes the
\* section encodes to, those bytes cut short, or with a reference damaged.
Wires ==
    With(encode, LAMBDA bytes : {bytes, Front(bytes)}) \cup OutOfRangeWires

\* fn data(&self, ids_to_indices) -> Cow<[u8]>
data ==
    /\ Released
    /\ op' = [name |-> "data"]
    /\ ret' = Some(encode)
    /\ UNCHANGED <<types, bindings, binds, phase, stack, pending, nodes, exprs, issued>>

\* crate::binary decode of a byte sequence; the section is left as it is.
decode_bytes(w) ==
    /\ Released
    /\ op' = [name |-> "decode", arg |-> w]
    /\ ret' = decode(w)
    /\ UNCHANGED <<types, bindings, binds, phase, stack, pending, nodes, exprs, issued>>

NextCodec ==
    \/ data
    \/ \E w \in Wires : decode_bytes(w)

\* ------------------------------------------------------- specifications
\* One run of the parser over one input text, driving BuildAstActions.
Next ==
    \/ NextTypes
    \/ NextRefs
    \/ NextExprs
    \/ NextBindings

Spec == Init /\ [][Next]_vars

\* A run over a short input without binding expressions, then the owner of
\* the section calling the tables' API.
NextBuildShort ==
    /\ \/ NextTypes
       \/ NextRefs
       \/ NextBindings
    /\ nodes' <= MaxApiNodes

NextWithApi ==
    \/ NextBuildShort
    \/ NextApi

SpecApi == Init /\ [][NextWithApi]_vars

\* A run of the builder, then the owner of the section encoding it and
\* decoding byte sequences.
NextWithCodec ==
    \/ Next
    \/ NextCodec

SpecCodec == Init /\ [][NextWithCodec]_vars

\* ================================================================ claims
Tables == <<types, bindings, binds>>
TableOf(t)  == IF t = "types" THEN types ELSE bindings
LogOf(t)    == IF t = "types" THEN issued.types ELSE issued.bindings
Registries  == {"types", "bindings"}
\* The names op takes for the lookups of the API and for the type constructors.
LookupOps == {"types.by_index", "types.by_name",
              "bindings.by_index", "bindings.by_name"}
TypeCtorOps == {"webidl_function", "webidl_dictionary",
                "webidl_enumeration", "webidl_union"}

\* C1 (index stability): in the Type Table and in the Binding Table, by_index(i)
\* is the identifier the i-th insert returned, for every insert made so far,
\* whatever names were recorded and whatever lookups were made in between.
C1_IndexStability ==
    \A t \in Registries :
        /\ Len(TableOf(t).indices) = Len(LogOf(t))
        /\ \A i \in 1..Len(LogOf(t)) :
               by_index(TableOf(t), i - 1) = Some(LogOf(t)[i].id.id)

\* Both tables have an entry, one named and one not, and a type lookup was
\* made between the two inserts.
C1_Witness ==
    /\ Len(issued.types) = 1
    /\ Len(issued.bindings) = 1
    /\ issued.types[1].name = Some("a")
    /\ issued.bindings[1].name = None
    /\ issued.bindings[1].entry.webidl_ty = RefId(0)
    /\ phase = "done"

\* C2 (name shadowing): when two Type Table entries were declared with the
\* same name, by_name resolves it to the later one; the earlier one is still
\* what by_index returns at its index, and no name resolves to it.
C2_NameShadowing ==
    \A i, j \in 1..Len(issued.types) :
        (/\ i < j
         /\ issued.types[i].name.some
         /\ issued.types[j].name = issued.types[i].name
         /\ \A k \in (j + 1)..Len(issued.types) :
                issued.types[k].name # issued.types[i].name)
        => /\ by_name(types, issued.types[i].name.val) = Some(issued.types[j].id.id)
           /\ by_index(types, i - 1) = Some(issued.types[i].id.id)
           /\ \A n \in Names : by_name(types, n) # Some(issued.types[i].id.id)

C2_Witness ==
    /\ Len(issued.types) = 2
    /\ issued.types[1].name = Some("a")
    /\ issued.types[2].name = Some("a")
    /\ by_name(types, "a") = Some(1)

\* C3 as the specification states it (all-or-nothing construction): after a
\* failed run the section the caller holds shows none of the entries the
\* earlier productions of the run inserted.
C3_AllOrNothing ==
    phase = "aborted" =>
        /\ types.arena = <<>>
        /\ bindings.arena = <<>>
        /\ binds = <<>>

\* C3 as amended: the builder works in place on the section borrowed by
\* BuildAstActions::new and does not roll back; after a failed run every entry
\* inserted by the earlier productions of the run is still in the section,
\* resolvable by index and through the identifier it was issued.
C3_NoRollback ==
    phase = "aborted" =>
        /\ \A t \in Registries :
              /\ Len(TableOf(t).arena) = Len(LogOf(t))
              /\ \A i \in 1..Len(LogOf(t)) :
                    /\ by_index(TableOf(t), i - 1) = Some(LogOf(t)[i].id.id)
                    /\ get(TableOf(t), LogOf(t)[i].id) = Some(LogOf(t)[i].entry)
        /\ Len(binds) = Len(issued.binds)

\* webidl_type_ref_named returned None for a name never inserted, after a
\* type had been inserted by an earlier production of the same run.
C3_Witness ==
    /\ phase = "aborted"
    /\ op.name = "webidl_type_ref_named"
    /\ ret = None
    /\ Len(types.arena) >= 1

\* C4 (round-trip identity): whenever the decoder was given the bytes the
\* section encodes to, it returned a section equal to it: the same arenas
\* (table contents), the same index lists (declaration order), the same
\* names, and entries whose references are the same identifiers.
C4_RoundTrip ==
    (op.name = "decode" /\ op.arg = encode)
        => ret = Section(types, bindings, binds)

\* A finished section with a named type and a binding that has parameter
\* expressions was encoded and decoded.
C4_Witness ==
    /\ op.name = "decode"
    /\ op.arg = encode
    /\ ret = Section(types, bindings, binds)
    /\ phase = "done"
    /\ DOMAIN types.names # {}
    /\ \E i \in DOMAIN bindings.arena :
          bindings.arena[i].params.bindings # <<>>

\* C5 (reference ordering): whenever the decoder was given bytes in which a
\* type index inside the binding table is not less than the number of
\* types, or the binding index of a bind is not less than the number of
\* bindings, it returned the malformed-section failure and no section.
C5_RejectsOutOfRange ==
    (op.name = "decode" /\ op.arg \in OutOfRangeWires) => ret = Malformed

\* Type index 3 in the binding table of a section that has one type.
C5_Witness ==
    /\ op.name = "decode"
    /\ op.arg \in OutOfRangeWires
    /\ ret = Malformed
    /\ Len(types.indices) = 1
    /\ \E p \in TypeIndexPositions : op.arg[p] = Len(types.indices) + MaxExcess

\* C6 (identifier stability): every identifier an insert returned, on any of
\* the three tables, still gets the entry it was issued for, after all the
\* inserts, name recordings and lookups made since; no entry was removed and
\* no identifier was issued twice.
C6_IdentifierStability ==
    /\ \A t \in Registries :
          /\ Len(TableOf(t).arena) = Len(LogOf(t))
          /\ \A i \in 1..Len(LogOf(t)) :
                get(TableOf(t), LogOf(t)[i].id) = Some(LogOf(t)[i].entry)
          /\ \A i, j \in 1..Len(LogOf(t)) :
                LogOf(t)[i].id.id = LogOf(t)[j].id.id => i = j
    /\ Len(binds) = Len(issued.binds)
    /\ \A i \in 1..Len(issued.binds) :
          ArenaGet(binds, issued.binds[i].id) = Some(issued.binds[i].entry)
    /\ \A i, j \in 1..Len(issued.binds) :
          issued.binds[i].id = issued.binds[j].id => i = j

\* An identifier of each table has outlived a later insert on its table.
C6_Witness ==
    /\ Len(issued.bindings) = 1
    /\ Len(issued.binds) = 2
    /\ issued.binds[1].entry # issued.binds[2].entry
    /\ phase = "done"

\* What a lookup returns when there is nothing to find: by_index with an
\* index past the inserted entries and by_name with a name never recorded
\* return None, on both tables, whether called directly or by a reference
\* production of the builder.
C7_AbsentIsNone ==
    /\ (op.name \in {"types.by_index", "webidl_type_ref_indexed"}
            /\ op.arg >= Len(types.indices)) => ret = None
    /\ (op.name \in {"types.by_name", "webidl_type_ref_named"}
            /\ op.arg \notin DOMAIN types.names) => ret = None
    /\ (op.name \in {"bindings.by_index", "binding_ref_indexed"}
            /\ op.arg >= Len(bindings.indices)) => ret = None
    /\ (op.name \in {"bindings.by_name", "binding_ref_named"}
            /\ op.arg \notin DOMAIN bindings.names) => ret = None

\* C7 (lookup-absent): a lookup that finds nothing returns None (in every
\* state, C7_AbsentIsNone), and a by_index or by_name call leaves the index
\* table, the name table and the arena of every table as they were.
C7_LookupAbsent ==
    /\ []C7_AbsentIsNone
    /\ [][op'.name \in LookupOps => UNCHANGED Tables]_vars

\* by_index(1) on a Type Table of one entry.
C7_Witness ==
    /\ op.name = "types.by_index"
    /\ Len(types.indices) = 1
    /\ op.arg = 1
    /\ ret = None

\* C8 (capability-typed views): an insert returns the identifier of the view
\* of the payload's variant; get through an issued identifier returns a payload
\* of that variant (the inserted one, right after the insert); get and get_mut
\* through an identifier of another view than the entry's variant return None.
C8_TypedViews ==
    /\ \A t \in Registries : \A i \in 1..Len(LogOf(t)) :
          /\ LogOf(t)[i].id.view = LogOf(t)[i].entry.variant
          /\ get(TableOf(t), LogOf(t)[i].id).some
          /\ get(TableOf(t), LogOf(t)[i].id).val.variant = LogOf(t)[i].id.view
          /\ \A v \in (TypeViews \cup BindingViews) \ {LogOf(t)[i].id.view} :
                get(TableOf(t), wrap(v, LogOf(t)[i].id.id)) = None
    /\ op.name \in TypeCtorOps =>
          /\ ret = Some(wrap(op.entry.variant, Len(types.arena) - 1))
          /\ get(types, ret.val) = Some(op.entry)
    /\ op.name \in {"types.get", "types.get_mut"} =>
          (ret.some <=> /\ op.arg.id < Len(types.arena)
                        /\ types.arena[op.arg.id + 1].variant = op.arg.view)
    /\ op.name \in {"bindings.get", "bindings.get_mut"} =>
          (ret.some <=> /\ op.arg.id < Len(bindings.arena)
                        /\ bindings.arena[op.arg.id + 1].variant = op.arg.view)

\* get through a WebidlFunctionId that wraps the id of a Dictionary entry.
C8_Witness ==
    /\ op.name = "types.get"
    /\ op.arg = wrap("Function", 0)
    /\ Len(types.arena) >= 1
    /\ types.arena[1].variant = "Dictionary"
    /\ ret = None

\* C9 (direction fixed): every Binding Table entry is of the variant (Import
\* or Export) it was inserted as, in every state after its insert, whatever
\* was inserted, fetched or written through get_mut since.
C9_DirectionFixed ==
    \A i \in 1..Len(issued.bindings) :
        /\ issued.bindings[i].id.id < Len(bindings.arena)
        /\ bindings.arena[issued.bindings[i].id.id + 1].variant
               = issued.bindings[i].entry.variant

\* A payload was rewritten through get_mut, and get_mut was then called
\* through the identifier of the other view.
C9_Witness ==
    /\ Len(issued.bindings) = 1
    /\ issued.bindings[1].entry.variant = "Export"
    /\ bindings.arena[1] # issued.bindings[1].entry
    /\ op.name = "bindings.get_mut"
    /\ op.arg = wrap("Import", 0)

\* C10 (Bind Table append-only, no dedup, no validation): the Bind Table holds
\* exactly one entry per bind production, in production order, each under a
\* fresh identifier and equal to the (func, binding) pair it was given, equal
\* pairs included.
C10_BindsAppendOnly ==
    /\ Len(binds) = Len(issued.binds)
    /\ \A i \in 1..Len(issued.binds) :
          /\ issued.binds[i].id = i - 1
          /\ binds[i] = issued.binds[i].entry

\* Two binds of the same function to the same binding.
C10_Witness ==
    /\ Len(binds) = 2
    /\ binds[1] = binds[2]
    /\ Len(bindings.arena) = 1

\* The names op takes for the productions that insert.
BindingOps   == {"import_binding", "export_binding"}
InsertingOps == TypeCtorOps \cup {"webidl_type"} \cup BindingOps \cup {"bind"}

\* C11 (frame effects of the productions): a type production changes only
\* the Type Table (a type constructor adds one entry to it), a binding
\* production changes the Binding Table and only it, a bind production
\* changes the Bind Table and only it, and every other production leaves
\* the three tables as they were.
C11_FrameEffects ==
    [][/\ op'.name \in TypeCtorOps \cup {"webidl_type"} =>
              UNCHANGED <<bindings, binds>>
       /\ op'.name \in TypeCtorOps =>
              Len(types'.arena) = Len(types.arena) + 1
       /\ op'.name \in BindingOps =>
              /\ UNCHANGED <<types, binds>>
              /\ Len(bindings'.arena) = Len(bindings.arena) + 1
       /\ op'.name = "bind" =>
              /\ UNCHANGED <<types, bindings>>
              /\ Len(binds') = Len(binds) + 1
       /\ op'.name \notin InsertingOps => UNCHANGED Tables]_vars

\* A bind production has run on a section that has a type and a binding.
C11_Witness ==
    /\ op.name = "bind"
    /\ Len(types.arena) = 1
    /\ DOMAIN types.names # {}
    /\ Len(bindings.arena) = 1
    /\ Len(binds) = 1

\* The type references a compound type holds.
TypeRefsOf(e) ==
    CASE e.variant = "Function" ->
           (IF e.kind.tag = "Method" THEN {e.kind.ty} ELSE {})
           \cup {e.params[i] : i \in DOMAIN e.params}
           \cup (IF e.result.some THEN {e.result.val} ELSE {})
      [] e.variant = "Dictionary" -> {e.fields[i].ty : i \in DOMAIN e.fields}
      [] e.variant = "Enumeration" -> {}
      [] e.variant = "Union" -> {e.members[i] : i \in DOMAIN e.members}

\* The declarations made so far that recorded the name n, by position.
DeclaredAs(n) ==
    {i \in 1..Len(issued.types) : issued.types[i].name = Some(n)}
Max(S) == CHOOSE x \in S : \A y \in S : y <= x

\* C12 (name resolution sees only earlier names): a by-name type reference
\* resolves to the most recent of the declarations completed before it that
\* recorded the name, or to None when there is none; and the references a
\* type entry holds are to entries inserted before it, never to itself or
\* to a later one.
C12_NamesSeenAreEarlier ==
    /\ op.name = "webidl_type_ref_named" =>
          ret = IF DeclaredAs(op.arg) = {} THEN None
                ELSE Some(RefId(issued.types[Max(DeclaredAs(op.arg))].id.id))
    /\ \A k \in 1..Len(types.arena) :
          \A r \in TypeRefsOf(types.arena[k]) : r.tag = "Id" => r.id < k - 1

\* While the second declaration is being built, a reference to the name of
\* the first resolves to the first.
C12_Witness ==
    /\ op.name = "webidl_type_ref_named"
    /\ op.arg = "a"
    /\ ret = Some(RefId(0))
    /\ phase = "types"
    /\ Len(types.arena) = 1

\* C13 (indexed type references are back-references): at any point of the
\* run, webidl_type_ref_indexed(idx) returns a reference to the idx-th
\* inserted type when idx is less than the number of types inserted so far
\* and None otherwise, the index the next declaration will get included.
C13_IndexedBackReferences ==
    op.name = "webidl_type_ref_indexed" =>
        ret = IF op.arg < Len(issued.types)
              THEN Some(RefId(issued.types[op.arg + 1].id.id))
              ELSE None

\* The second declaration refers to itself by the index it will get.
C13_Witness ==
    /\ op.name = "webidl_type_ref_indexed"
    /\ phase = "aborted"
    /\ Len(types.arena) = 1
    /\ Len(bindings.arena) = 0
    /\ op.arg = 1
    /\ ret = None

\* C14, as stated (index and name are recorded together): in either table,
\* a step that changes the name table is a step that adds an index, so that
\* no state lies between the indexing of a named entry and the recording of
\* its name.
C14_AtomicInsert ==
    [][/\ types.names' # types.names =>
              Len(types'.indices) = Len(types.indices) + 1
       /\ bindings.names' # bindings.names =>
              Len(bindings'.indices) = Len(bindings.indices) + 1]_vars

\* C14, amended (the name follows the index): in the Binding Table the name
\* is recorded by the callback that inserts the entry.  In the Type Table
\* the constructor callback inserts the entry and leaves the names alone;
\* the name is recorded by the webidl_type callback that comes next, for
\* the entry just inserted.  Between the two the entry is resolvable by
\* index while its name still resolves as it did before the declaration.
C14_NameFollowsIndex ==
    [][/\ bindings.names' # bindings.names =>
              /\ op'.name \in BindingOps
              /\ Len(bindings'.indices) = Len(bindings.indices) + 1
       /\ (op'.name \in BindingOps /\ op'.arg.some) =>
              by_name(bindings', op'.arg.val) = Some(Last(bindings'.indices))
       /\ op'.name \in TypeCtorOps =>
              /\ Len(types'.indices) = Len(types.indices) + 1
              /\ types'.names = types.names
       /\ op.name \in TypeCtorOps => op'.name = "webidl_type"
       /\ types.names' # types.names =>
              /\ op.name \in TypeCtorOps
              /\ types'.indices = types.indices
       /\ (op'.name = "webidl_type" /\ op'.arg.some) =>
              by_name(types', op'.arg.val) = Some(Last(types.indices))]_vars

\* A named declaration whose name has just been recorded, one callback
\* after its entry was indexed.
C14_Witness ==
    /\ op.name = "webidl_type"
    /\ op.arg = Some("a")
    /\ phase = "types"
    /\ by_index(types, 0) = Some(0)
    /\ by_name(types, "a") = Some(0)
    /\ Len(types.arena) = 1

GetMutOps == {"types.get_mut", "bindings.get_mut"}
\* What by_index and by_name answer for every index and name a caller may
\* present.
Answers(table) ==
    [index |-> [i \in 0..(MaxNodes + 1) |-> by_index(table, i)],
     name  |-> [n \in Names |-> by_name(table, n)]]

\* C15 (get_mut leaves the indices and the names alone): a get_mut on the
\* Type Table or the Binding Table, whatever the caller then writes through
\* the reference, changes neither table's index sequence nor name table nor
\* number of entries, and every by_index and by_name lookup answers after
\* it as it did before.
C15_GetMutFrame ==
    [][op'.name \in GetMutOps =>
          \A t \in {<<types, types'>>, <<bindings, bindings'>>} :
              /\ t[2].indices = t[1].indices
              /\ t[2].names = t[1].names
              /\ Len(t[2].arena) = Len(t[1].arena)
              /\ Answers(t[2]) = Answers(t[1])]_vars

\* A get_mut that found its entry, after which the entry differs from the
\* one inserted, in a table that has a name.
C15_Witness ==
    /\ op.name = "types.get_mut"
    /\ ret.some
    /\ Len(types.arena) = 1
    /\ types.arena[1] # issued.types[1].entry
    /\ by_name(types, "a") = Some(0)

\* C16 (the two tables have separate name spaces): a step that changes the
\* Binding Table's names leaves the Type Table's names as they were, and a
\* step that changes the Type Table's names leaves the Binding Table's; in
\* particular import_binding and export_binding never change types.names
\* and webidl_type never changes bindings.names.  Within a table a name
\* resolves to at most one entry, which is an entry of that table.
C16_IndependentNames ==
    /\ [][/\ bindings'.names # bindings.names => types'.names = types.names
          /\ types'.names # types.names => bindings'.names = bindings.names
          /\ op'.name \in BindingOps => types'.names = types.names
          /\ op'.name = "webidl_type" => bindings'.names = bindings.names]_vars
    /\ [](\A r \in Registries : \A n \in Names :
            /\ Cardinality({id \in 0..MaxNodes :
                               by_name(TableOf(r), n) = Some(id)}) <= 1
            /\ by_name(TableOf(r), n).some =>
                   ArenaGet(TableOf(r).arena, by_name(TableOf(r), n).val).some)

\* The same name recorded in both tables, for a type and for a binding, each
\* resolving in its own table; the binding was recorded last.
C16_Witness ==
    /\ op.name \in BindingOps
    /\ op.arg = Some("a")
    /\ by_name(types, "a") = Some(1)
    /\ by_name(bindings, "a") = Some(0)
    /\ types.arena[2].variant \in TypeViews
    /\ bindings.arena[1].variant \in BindingViews

\* The binding references inside an expression: the binding of a BindExport
\* or BindImport, and those of the expressions nested in it.
RECURSIVE BindingRefsOut(_)
BindingRefsOut(e) ==
    CASE e.variant = "BindExport" -> {e.binding}
      [] e.variant = "Dict" ->
             UNION {BindingRefsOut(e.fields[i]) : i \in DOMAIN e.fields}
      [] OTHER -> {}
RECURSIVE BindingRefsIn(_)
BindingRefsIn(e) ==
    IF e.variant = "Get" THEN {}
    ELSE (IF e.variant = "BindImport" THEN {e.binding} ELSE {})
         \cup BindingRefsIn(e.expr)
BindingRefsOf(b) ==
    LET outs == IF b.variant = "Import" THEN b.params.bindings
                ELSE b.result.bindings
        ins  == IF b.variant = "Import" THEN b.result.bindings
                ELSE b.params.bindings
    IN  UNION ({BindingRefsOut(outs[i]) : i \in DOMAIN outs}
               \cup {BindingRefsIn(ins[i]) : i \in DOMAIN ins})
\* The bindings reachable from binding id in at most n reference steps.
RECURSIVE BindingsReachable(_, _)
BindingsReachable(id, n) ==
    IF n = 0 THEN {}
    ELSE LET direct == BindingRefsOf(bindings.arena[id + 1])
         IN  direct \cup UNION {BindingsReachable(d, n - 1) : d \in direct}
RefOps == {"binding_ref_named", "binding_ref_indexed"}

\* C17 (binding references point backwards; the reference graph is acyclic):
\* a binding reference resolved by binding_ref_named or binding_ref_indexed
\* is to an entry already in the Binding Table, so that every reference
\* held by a binding's BindExport and BindImport expressions is to an entry
\* inserted strictly before that binding, every Bind refers to an inserted
\* binding, and no binding reaches itself through references.
C17_BindingRefsBackward ==
    /\ (op.name \in RefOps /\ ret.some) => ret.val < Len(bindings.arena)
    /\ \A k \in 1..Len(bindings.arena) :
          \A r \in BindingRefsOf(bindings.arena[k]) : r < k - 1
    /\ \A i \in 1..Len(binds) : binds[i].binding < Len(bindings.arena)
    /\ \A k \in 1..Len(bindings.arena) :
          (k - 1) \notin BindingsReachable(k - 1, Len(bindings.arena))

\* The second binding holds a reference to the first in one of its
\* expressions.
C17_Witness ==
    /\ op.name \in BindingOps
    /\ Len(bindings.arena) = 2
    /\ BindingRefsOf(bindings.arena[2]) = {0}

\* C18 (the names, the indices and the arena agree): in the Type Table and
\* in the Binding Table, the index sequence has exactly one element per
\* arena entry, and every identifier in the name table is an element of the
\* index sequence and resolves to an entry of the arena; so by_name never
\* returns an identifier that by_index cannot reach.
C18_NamesWithinIndices ==
    \A r \in Registries :
        /\ Len(TableOf(r).indices) = Len(TableOf(r).arena)
        /\ \A id \in 0..(Len(TableOf(r).arena) - 1) :
              Cardinality({i \in DOMAIN TableOf(r).indices :
                              TableOf(r).indices[i] = id}) = 1
        /\ \A n \in Names :
              by_name(TableOf(r), n).some =>
                  /\ \E i \in 0..(Len(TableOf(r).indices) - 1) :
                        by_index(TableOf(r), i) = by_name(TableOf(r), n)
                  /\ ArenaGet(TableOf(r).arena, by_name(TableOf(r), n).val).some

\* Both tables hold a named entry, and the caller has just looked the
\* binding up by its name.
C18_Witness ==
    /\ op.name = "bindings.by_name"
    /\ ret = Some(0)
    /\ by_name(types, "a") = Some(0)
    /\ Len(types.arena) = 1
    /\ Len(bindings.arena) = 1
====
